---------------------------- MODULE Spec2Model ----------------------------
(***************************************************************************)
(* Model of BitkubBot.py: the moving-average crossover bot.                *)
(*                                                                         *)
(* One evaluation cycle of monitor_mas_on_candle_close is a walk of pc     *)
(* through the loop body; every external call (server time, klines,        *)
(* ticker, order placement, balances) is a step whose result is chosen     *)
(* nondeterministically.  Prices and amounts are small naturals; a moving  *)
(* average is the exact fraction <<numerator, denominator>>, so that the   *)
(* comparisons of the crossover logic are exact.                           *)
(***************************************************************************)
EXTENDS Integers, Sequences, FiniteSets, TLC

(* ------------------------------ bounds --------------------------------- *)
\* close prices of a kline are drawn from 1..MaxPrice
MaxPrice == 2
\* the 'rec' amount of a successful buy response is drawn from 0..MaxRec
MaxRec == 2
\* self_buy_amount_coin of the configuration is drawn from 0..MaxSeed
MaxSeed == 1
\* a moving-average function examined on its own gets a series of at most
\* MaxLen prices, after at most MaxHistory older prices, and a period of at
\* most MaxPeriod
MaxLen == 3
MaxHistory == 2
MaxPeriod == 3
\* the server clock, in milliseconds, reads at most MaxClock when the wait
\* before the fetch is examined on its own
MaxClock == 2100
\* a quoted price, when the rate written into a limit order is examined on
\* its own, ends in a last decimal digit (past the displayed ones) of at most
\* MaxTail
MaxTail == 9

\* Python's None where a moving average is expected
None == <<>>

(* --------------------------- configuration ----------------------------- *)
\* (fast_ma_period, slow_ma_period) pairs of the configurations explored; a
\* config.json written by hand can hold a period of 0
PeriodPairs == {<<1, 2>>, <<2, 1>>, <<0, 2>>}

\* the MA kinds calculate_ma has a branch for
SupportedIndicatorTypes == {"SMA", "EMA", "WMA"}

\* indicator_type values: the three supported kinds and an unsupported one
IndicatorTypes == {"SMA", "EMA", "WMA", "XMA"}

\* the keys of interval_duration_seconds
SupportedIntervals ==
    {"1s", "1m", "3m", "5m", "15m", "30m", "1h", "2h", "4h", "6h", "8h", "12h",
     "1d", "3d", "1w", "1M"}

\* timeframe values: a supported one and an unsupported one
Timeframes == {"1m", "7m"}

\* (order_execution_type, max_tolerable_slippage_percentage)
ExecutionModes == {<<"market", 0>>, <<"limit", 2>>}

\* market mode with a slippage setting; taken with indicator_type "SMA" and
\* the supported timeframe
MarketModesWithSlippage == {<<"market", 2>>}

\* (self_buy_enabled, self_buy_amount_coin)
SelfBuys == {<<FALSE, 0>>} \cup {<<TRUE, a>> : a \in 0..MaxSeed}

ConfigOf(pp, t, tf, sb, z, em) ==
    [fast_ma_period |-> pp[1], slow_ma_period |-> pp[2], indicator_type |-> t,
     timeframe |-> tf,
     self_buy_enabled |-> sb[1], self_buy_amount_coin |-> sb[2],
     position_size_thb |-> z, order_execution_type |-> em[1],
     max_tolerable_slippage_percentage |-> em[2]]

\* every MA kind with market orders; limit orders and market orders with a
\* slippage setting with the kind SMA
Configs ==
    { ConfigOf(pp, t, tf, sb, 1000, <<"market", 0>>) :
         pp \in PeriodPairs, t \in IndicatorTypes, tf \in Timeframes,
         sb \in SelfBuys }
    \cup
    { ConfigOf(pp, "SMA", tf, sb, 1000, em) :
         pp \in PeriodPairs, tf \in Timeframes, sb \in SelfBuys,
         em \in ExecutionModes }
    \cup
    { ConfigOf(pp, "SMA", "1m", sb, 1000, em) :
         pp \in PeriodPairs, sb \in SelfBuys, em \in MarketModesWithSlippage }

\* what the ticker can answer: (lowestAsk, highestBid)
Quotes == {<<100, 100>>, <<3, 2>>}

VARIABLES
    config,                       \* the loaded config.json
    pc,                           \* position in the while-True loop
    bot_managed_holding,          \* amount of coin managed by the strategy
    last_trade_type,              \* "BUY" or "SELL"
    previous_derived_bot_state,   \* "UNKNOWN", "HOLDING" or "CASH"
    data,                         \* result of get_crypto_data_and_mas
    bitkub_market_data,           \* result of get_bitkub_market_data this cycle
    derived_bot_state,            \* this cycle's derived state, "UNSET" before it is computed
    primary,                      \* primary signal reported this cycle
    backup,                       \* backup signal reported this cycle
    orders,                       \* order requests placed this cycle, oldest first
    response,                     \* <<buy_response / sell_response>> of the last order call, <<>> before one
    candles,                      \* the closes the exchange serves when it serves the same every time, else <<>>
    call,                         \* arguments of the function examined on its own, else <<>>
    ret                           \* what that function returned, <<>> before it has

vars == <<config, pc, bot_managed_holding, last_trade_type,
          previous_derived_bot_state, data, bitkub_market_data,
          derived_bot_state, primary, backup, orders, response, candles,
          call, ret>>

(* ------------------------- exact fractions ----------------------------- *)
FracGT(a, b) == a[1] * b[2] > b[1] * a[2]
FracLT(a, b) == a[1] * b[2] < b[1] * a[2]
FracLE(a, b) == a[1] * b[2] <= b[1] * a[2]
FracGE(a, b) == a[1] * b[2] >= b[1] * a[2]

RECURSIVE SumSeq(_)
SumSeq(s) == IF s = <<>> THEN 0 ELSE s[1] + SumSeq(Tail(s))

\* prices[-period:]
LastN(prices, period) == SubSeq(prices, Len(prices) - period + 1, Len(prices))
\* prices[:period]
FirstN(prices, period) == SubSeq(prices, 1, period)
\* prices[period:]
DropN(prices, period) == SubSeq(prices, period + 1, Len(prices))
\* prices[:-k]
DropLast(prices, k) ==
    IF Len(prices) <= k THEN <<>> ELSE SubSeq(prices, 1, Len(prices) - k)

(* ------------------------- moving averages ----------------------------- *)
\* mutant: a series of exactly `period` prices counts as too short
calculate_sma_OffByOne(prices, period) ==
    IF Len(prices) <= period THEN None
    ELSE <<SumSeq(LastN(prices, period)), period>>

\* lines 99-103
calculate_sma(prices, period) ==
    IF Len(prices) < period THEN None
    ELSE <<SumSeq(LastN(prices, period)), period>>

\* one step of the fold: ema = price * multiplier + ema * (1 - multiplier),
\* multiplier = 2 / (period + 1)
RECURSIVE EmaFold(_, _, _)
EmaFold(ema, rest, period) ==
    IF rest = <<>> THEN ema
    ELSE EmaFold(<<rest[1] * 2 * ema[2] + ema[1] * (period - 1),
                   ema[2] * (period + 1)>>,
                 Tail(rest), period)

calculate_ema(prices, period) ==
    IF Len(prices) < period THEN None
    ELSE EmaFold(<<SumSeq(FirstN(prices, period)), period>>,
                 DropN(prices, period), period)

\* sum(price * weight for price, weight in zip(prices[-period:], 1..period))
RECURSIVE WeightedSum(_, _)
WeightedSum(window, weight) ==
    IF window = <<>> THEN 0
    ELSE window[1] * weight + WeightedSum(Tail(window), weight + 1)

\* mutant: the weights go to the first `period` prices of the series
calculate_wma_HeadWindow(prices, period) ==
    IF Len(prices) < period THEN None
    ELSE <<WeightedSum(FirstN(prices, period), 1), SumSeq([i \in 1..period |-> i])>>

\* lines 122-131
calculate_wma(prices, period) ==
    IF Len(prices) < period THEN None
    ELSE <<WeightedSum(LastN(prices, period), 1), SumSeq([i \in 1..period |-> i])>>

calculate_ma(prices, period, ma_type) ==
    IF ma_type = "SMA" THEN calculate_sma(prices, period)
    ELSE IF ma_type = "EMA" THEN calculate_ema(prices, period)
    ELSE IF ma_type = "WMA" THEN calculate_wma(prices, period)
    ELSE calculate_sma(prices, period)

(* ---------------------- get_crypto_data_and_mas ------------------------ *)
Max(a, b) == IF a >= b THEN a ELSE b

fetch_limit == Max(config.fast_ma_period, config.slow_ma_period) + 2

EmptyDict == [p \in {} |-> None]

\* the dict {period: ma} built by the loop over ma_periods, None values left out
MasOf(prices, ma_periods, ma_type) ==
    [p \in {q \in ma_periods : calculate_ma(prices, q, ma_type) # None}
        |-> calculate_ma(prices, p, ma_type)]

\* dict.get(key)
Get(dict, key) == IF key \in DOMAIN dict THEN dict[key] ELSE None

NoData(close_prices) ==
    [close_prices |-> close_prices,
     current_confirmed_mas |-> EmptyDict,
     previous_confirmed_mas |-> EmptyDict]

\* with period 0 every calculate_* divides by zero (lines 103, 114, 130)
RaisesZeroDivision(period) == period = 0

\* mutant: the windows include the last, unconfirmed candle
get_crypto_data_and_mas_Unconfirmed(klines, ma_periods, ma_type) ==
    IF klines = <<>> THEN NoData(<<>>)
    ELSE IF Len(klines) < Max(ma_periods[1], ma_periods[2]) + 2 THEN NoData(klines)
    ELSE IF RaisesZeroDivision(ma_periods[1]) \/ RaisesZeroDivision(ma_periods[2])
    THEN NoData(<<>>)
    ELSE [close_prices |-> klines,
          current_confirmed_mas |->
              MasOf(klines, {ma_periods[1], ma_periods[2]}, ma_type),
          previous_confirmed_mas |->
              MasOf(DropLast(klines, 1), {ma_periods[1], ma_periods[2]}, ma_type)]

\* mutant: the length check asks for one candle less
get_crypto_data_and_mas_OneShort(klines, ma_periods, ma_type) ==
    IF klines = <<>> THEN NoData(<<>>)
    ELSE IF Len(klines) < Max(ma_periods[1], ma_periods[2]) + 1 THEN NoData(klines)
    ELSE IF RaisesZeroDivision(ma_periods[1]) \/ RaisesZeroDivision(ma_periods[2])
    THEN NoData(<<>>)
    ELSE [close_prices |-> klines,
          current_confirmed_mas |->
              MasOf(DropLast(klines, 1), {ma_periods[1], ma_periods[2]}, ma_type),
          previous_confirmed_mas |->
              MasOf(DropLast(klines, 2), {ma_periods[1], ma_periods[2]}, ma_type)]

\* lines 177-271
get_crypto_data_and_mas(klines, ma_periods, ma_type) ==
    IF klines = <<>> THEN NoData(<<>>)
    ELSE IF Len(klines) < Max(ma_periods[1], ma_periods[2]) + 2 THEN NoData(klines)
    ELSE IF RaisesZeroDivision(ma_periods[1]) \/ RaisesZeroDivision(ma_periods[2])
    THEN NoData(<<>>)
    ELSE [close_prices |-> klines,
          current_confirmed_mas |->
              MasOf(DropLast(klines, 1), {ma_periods[1], ma_periods[2]}, ma_type),
          previous_confirmed_mas |->
              MasOf(DropLast(klines, 2), {ma_periods[1], ma_periods[2]}, ma_type)]

\* the kline series the exchange can answer with: at most `limit` candles
RECURSIVE SeqsUpTo(_, _)
SeqsUpTo(S, n) ==
    IF n = 0 THEN {<<>>}
    ELSE LET shorter == SeqsUpTo(S, n - 1)
         IN  shorter \cup {Append(s, x) : s \in {t \in shorter : Len(t) = n - 1}, x \in S}

Klines(limit) == SeqsUpTo(1..MaxPrice, limit)

(* ------------------------- crossover detection ------------------------- *)
\* lines 718-721
DerivedState(fast_ma_current, slow_ma_current) ==
    IF FracGT(fast_ma_current, slow_ma_current) THEN "HOLDING" ELSE "CASH"

\* mutant: a cross below is taken for a buy signal and a cross above for a
\* sell signal
PrimarySignal_Contrarian(fast_ma_current, slow_ma_current, fast_ma_previous, slow_ma_previous) ==
    IF FracLT(fast_ma_current, slow_ma_current) /\ FracGE(fast_ma_previous, slow_ma_previous)
    THEN "BUY"
    ELSE IF FracGT(fast_ma_current, slow_ma_current) /\ FracLE(fast_ma_previous, slow_ma_previous)
    THEN "SELL"
    ELSE "NONE"

\* mutant: the previous window tested with < instead of <=
PrimarySignal_StrictPrevious(fast_ma_current, slow_ma_current, fast_ma_previous, slow_ma_previous) ==
    IF FracGT(fast_ma_current, slow_ma_current) /\ FracLT(fast_ma_previous, slow_ma_previous)
    THEN "BUY"
    ELSE IF FracLT(fast_ma_current, slow_ma_current) /\ FracGT(fast_ma_previous, slow_ma_previous)
    THEN "SELL"
    ELSE "NONE"

\* the if / elif / else of lines 735, 760, 782
PrimarySignal(fast_ma_current, slow_ma_current, fast_ma_previous, slow_ma_previous) ==
    IF FracGT(fast_ma_current, slow_ma_current) /\ FracLE(fast_ma_previous, slow_ma_previous)
    THEN "BUY"
    ELSE IF FracLT(fast_ma_current, slow_ma_current) /\ FracGE(fast_ma_previous, slow_ma_previous)
    THEN "SELL"
    ELSE "NONE"

(* --------------------------- trade decisions --------------------------- *)
\* mutant: the duplicate-buy check left out
PrimaryBuyGuard_Always(last, holding) == TRUE
\* line 738
PrimaryBuyGuard(last, holding) == last # "BUY" \/ holding = 0
\* mutant: the holding check left out
PrimarySellGuard_NoHoldingCheck(holding, last) == last # "SELL"
\* line 763
PrimarySellGuard(holding, last) == holding > 0 /\ last # "SELL"
\* mutant: the backup buy never fires
BackupBuyGuard_Never(last, holding) == FALSE
\* mutant: the backup buy fires on the derived state alone
BackupBuyGuard_Always(last, holding) == TRUE
\* line 792, after derived_bot_state == "HOLDING"
BackupBuyGuard(last, holding) == last # "BUY" \/ holding = 0
\* line 811, after derived_bot_state == "CASH"
BackupSellGuard(holding, last) == holding > 0 /\ last # "SELL"

\* mutant: the buy rate is computed whatever the execution type
PrimaryBuyRate_AlwaysPriced(order_execution_type, ask, max_slippage_percentage) ==
    <<ask * (100 + max_slippage_percentage), 100>>
\* order_rate, an exact fraction, or None for a market order
\* lines 739-741: current_bitkub_ask_price * (1 + max_slippage_percentage / 100)
PrimaryBuyRate(order_execution_type, ask, max_slippage_percentage) ==
    IF order_execution_type = "limit"
    THEN <<ask * (100 + max_slippage_percentage), 100>> ELSE None
\* lines 764-766: current_bitkub_bid_price * (1 - max_slippage_percentage / 100)
PrimarySellRate(order_execution_type, bid, max_slippage_percentage) ==
    IF order_execution_type = "limit"
    THEN <<bid * (100 - max_slippage_percentage), 100>> ELSE None
\* mutant: the backup buy is priced from one below the best ask
BackupBuyRate_BelowAsk(order_execution_type, ask, max_slippage_percentage) ==
    IF order_execution_type = "limit"
    THEN <<(ask - 1) * (100 + max_slippage_percentage), 100>> ELSE None
\* lines 794-796
BackupBuyRate(order_execution_type, ask, max_slippage_percentage) ==
    IF order_execution_type = "limit"
    THEN <<ask * (100 + max_slippage_percentage), 100>> ELSE None
\* lines 813-815
BackupSellRate(order_execution_type, bid, max_slippage_percentage) ==
    IF order_execution_type = "limit"
    THEN <<bid * (100 - max_slippage_percentage), 100>> ELSE None

\* the request handed to place_buy_order_bitkub, lines 745-747 and 799-801
BuyOrder(signal_type, order_rate) ==
    [side |-> "BUY", amt |-> config.position_size_thb,
     typ |-> config.order_execution_type, rate |-> order_rate,
     signal_type |-> signal_type]

\* mutant: one coin is sold, whatever is managed
SellOrder_OneCoin(signal_type, holding, order_rate) ==
    [side |-> "SELL", amt |-> 1,
     typ |-> config.order_execution_type, rate |-> order_rate,
     signal_type |-> signal_type]

\* lines 770-772 and 818-820
SellOrder(signal_type, holding, order_rate) ==
    [side |-> "SELL", amt |-> holding,
     typ |-> config.order_execution_type, rate |-> order_rate,
     signal_type |-> signal_type]

\* bitkub_market_data: not fetched yet this cycle, None, or the ticker's answer
NoQuote == [status |-> "unset", lowestAsk |-> 0, highestBid |-> 0]
QuoteNone == [status |-> "none", lowestAsk |-> 0, highestBid |-> 0]
QuoteOf(q) == [status |-> "ok", lowestAsk |-> q[1], highestBid |-> q[2]]

\* the responses place_*_order_bitkub can return: error 0 with the 'rec' amount
\* (0 when the field is absent), or a non-zero error code
ErrorCodes == {-1, -2}

BuyResponses ==
    {[error |-> 0, rec |-> r] : r \in 0..MaxRec} \cup {[error |-> e, rec |-> 0] : e \in ErrorCodes}

SellResponses ==
    {[error |-> 0, rec |-> 0]} \cup {[error |-> e, rec |-> 0] : e \in ErrorCodes}

\* mutant: the coins are credited whatever the response says
PrimaryBuyUpdate_Speculative(holding, last, buy_response) == <<holding + 1, "BUY">>
\* <<bot_managed_holding, last_trade_type>> after the response, lines 748-755
PrimaryBuyUpdate(holding, last, buy_response) ==
    IF buy_response.error = 0 THEN <<holding + buy_response.rec, "BUY">> ELSE <<holding, last>>
\* mutant: a successful sell leaves one coin managed
PrimarySellUpdate_Partial(holding, last, sell_response) ==
    IF sell_response.error = 0 THEN <<holding - 1, "SELL">> ELSE <<holding, last>>
\* lines 773-779
PrimarySellUpdate(holding, last, sell_response) ==
    IF sell_response.error = 0 THEN <<0, "SELL">> ELSE <<holding, last>>
\* mutant: the trade direction is not recorded
BackupBuyUpdate_NoDirection(holding, last, buy_response) ==
    IF buy_response.error = 0 THEN <<holding + buy_response.rec, last>> ELSE <<holding, last>>
\* lines 802-808
BackupBuyUpdate(holding, last, buy_response) ==
    IF buy_response.error = 0 THEN <<holding + buy_response.rec, "BUY">> ELSE <<holding, last>>
\* mutant: a successful backup sell records the direction and keeps the coins
BackupSellUpdate_KeepsCoins(holding, last, sell_response) ==
    IF sell_response.error = 0 THEN <<holding, "SELL">> ELSE <<holding, last>>
\* mutant: the position is flattened before the response is looked at
BackupSellUpdate_Speculative(holding, last, sell_response) == <<0, "SELL">>
\* lines 821-826
BackupSellUpdate(holding, last, sell_response) ==
    IF sell_response.error = 0 THEN <<0, "SELL">> ELSE <<holding, last>>

(* ------------------------------- Init ---------------------------------- *)
\* The state when the while-True loop is entered; with an unsupported timeframe
\* the function has returned at line 580 and the loop is never entered.
Startup ==
    /\ config \in Configs
    /\ pc = IF config.timeframe \in SupportedIntervals THEN "loop" ELSE "exit"
    /\ IF config.self_buy_enabled /\ config.self_buy_amount_coin > 0
       THEN bot_managed_holding = config.self_buy_amount_coin /\ last_trade_type = "BUY"
       ELSE bot_managed_holding = 0 /\ last_trade_type = "SELL"
    /\ previous_derived_bot_state = "UNKNOWN"
    /\ data = NoData(<<>>)
    /\ bitkub_market_data = NoQuote
    /\ derived_bot_state = "UNSET"
    /\ primary = "UNSET"
    /\ backup = "UNSET"
    /\ orders = <<>>
    /\ response = <<>>

\* the exchange is free to serve different candles in every cycle
Init == Startup /\ candles = <<>> /\ call = <<>> /\ ret = <<>>

(* ------------------------------ actions -------------------------------- *)
position == <<bot_managed_holding, last_trade_type>>

\* lines 619-678: a new iteration starts; the server time is read and the wait
\* before the fetch elapses.  The loop's locals of the previous iteration are
\* dead here (each is assigned before it is read) and are cleared.
GetServerTime ==
    /\ pc = "loop"
    /\ pc' = "fetch"
    /\ data' = NoData(<<>>)
    /\ bitkub_market_data' = NoQuote
    /\ derived_bot_state' = "UNSET"
    /\ primary' = "UNSET"
    /\ backup' = "UNSET"
    /\ orders' = <<>>
    /\ response' = <<>>
    /\ UNCHANGED <<config, position, previous_derived_bot_state, candles, call, ret>>

\* mutant: a failed server-time read forgets the derived state of the last
\* completed cycle
ServerTimeFail_ForgetsState ==
    /\ pc = "loop"
    /\ pc' = "backoff"
    /\ previous_derived_bot_state' = "UNKNOWN"
    /\ UNCHANGED <<config, candles, call, ret, position, data,
                   bitkub_market_data, derived_bot_state, primary, backup,
                   orders, response>>

\* lines 622-625: get_binance_server_time_utc returned None
ServerTimeFail ==
    /\ pc = "loop"
    /\ pc' = "backoff"
    /\ UNCHANGED <<config, candles, call, ret, position, previous_derived_bot_state, data,
                   bitkub_market_data, derived_bot_state, primary, backup,
                   orders, response>>

\* mutant: the handler of line 849 ends the loop
Backoff_Stops ==
    /\ pc = "backoff"
    /\ pc' = "exit"
    /\ UNCHANGED <<config, candles, call, ret, position, previous_derived_bot_state, data,
                   bitkub_market_data, derived_bot_state, primary, backup,
                   orders, response>>

\* time.sleep(5) of lines 624 and 851, then the next iteration
Backoff ==
    /\ pc = "backoff"
    /\ pc' = "loop"
    /\ UNCHANGED <<config, candles, call, ret, position, previous_derived_bot_state, data,
                   bitkub_market_data, derived_bot_state, primary, backup,
                   orders, response>>

\* lines 680-722 and 831-835: the klines request answered `klines`; compute the
\* four MAs, derive the state
Fetched(klines) ==
    /\ pc = "fetch"
    /\ LET d  == get_crypto_data_and_mas(
                     klines, <<config.fast_ma_period, config.slow_ma_period>>,
                     config.indicator_type)
           fast_ma_current  == Get(d.current_confirmed_mas, config.fast_ma_period)
           slow_ma_current  == Get(d.current_confirmed_mas, config.slow_ma_period)
           fast_ma_previous == Get(d.previous_confirmed_mas, config.fast_ma_period)
           slow_ma_previous == Get(d.previous_confirmed_mas, config.slow_ma_period)
       IN  /\ data' = d
           /\ IF /\ d.current_confirmed_mas # EmptyDict
                 /\ d.previous_confirmed_mas # EmptyDict
                 /\ \A ma \in {fast_ma_current, slow_ma_current,
                               fast_ma_previous, slow_ma_previous} : ma # None
              THEN /\ derived_bot_state' = DerivedState(fast_ma_current, slow_ma_current)
                   /\ pc' = "quote"
              ELSE /\ derived_bot_state' = derived_bot_state
                   /\ pc' = "refresh"
    /\ UNCHANGED <<config, candles, call, ret, position, previous_derived_bot_state,
                   bitkub_market_data, primary, backup, orders, response>>

\* line 680 with whatever the exchange answers
FetchAndEvaluate == \E klines \in Klines(fetch_limit) : Fetched(klines)

\* mutant: the missing quote ends the loop
QuoteFail_Terminates ==
    /\ pc = "quote"
    /\ bitkub_market_data' = QuoteNone
    /\ pc' = "exit"
    /\ UNCHANGED <<config, candles, call, ret, position, previous_derived_bot_state, data,
                   derived_bot_state, primary, backup, orders, response>>

\* lines 725-729: get_bitkub_market_data returned None, `continue`
QuoteFail ==
    /\ pc = "quote"
    /\ bitkub_market_data' = QuoteNone
    /\ pc' = "loop"
    /\ UNCHANGED <<config, candles, call, ret, position, previous_derived_bot_state, data,
                   derived_bot_state, primary, backup, orders, response>>

\* lines 785-829, entered with the position the primary branch left
BackupSignalLogic(holding, last, quote) ==
    IF derived_bot_state = "HOLDING" /\ BackupBuyGuard(last, holding)
    THEN /\ backup' = "BUY"
         /\ orders' = Append(orders, BuyOrder("backup",
                          BackupBuyRate(config.order_execution_type, quote.lowestAsk,
                                        config.max_tolerable_slippage_percentage)))
         /\ pc' = "backup_resp"
         /\ UNCHANGED previous_derived_bot_state
    ELSE IF derived_bot_state = "CASH" /\ BackupSellGuard(holding, last)
    THEN /\ backup' = "SELL"
         /\ orders' = Append(orders, SellOrder("backup", holding,
                          BackupSellRate(config.order_execution_type, quote.highestBid,
                                         config.max_tolerable_slippage_percentage)))
         /\ pc' = "backup_resp"
         /\ UNCHANGED previous_derived_bot_state
    ELSE /\ backup' = "NONE"
         /\ previous_derived_bot_state' = derived_bot_state
         /\ pc' = "refresh"
         /\ UNCHANGED orders

\* lines 725-747, 757-772, 781-783: the quote is there; the primary check, up to
\* the order call it makes, or else through the backup check
QuoteOk ==
    /\ pc = "quote"
    /\ \E q \in Quotes :
         LET quote == QuoteOf(q)
             sig == PrimarySignal(
                        Get(data.current_confirmed_mas, config.fast_ma_period),
                        Get(data.current_confirmed_mas, config.slow_ma_period),
                        Get(data.previous_confirmed_mas, config.fast_ma_period),
                        Get(data.previous_confirmed_mas, config.slow_ma_period))
         IN  /\ bitkub_market_data' = quote
             /\ primary' = sig
             /\ IF sig = "BUY" /\ PrimaryBuyGuard(last_trade_type, bot_managed_holding)
                THEN /\ orders' = Append(orders, BuyOrder("primary",
                                      PrimaryBuyRate(config.order_execution_type,
                                          quote.lowestAsk,
                                          config.max_tolerable_slippage_percentage)))
                     /\ pc' = "primary_resp"
                     /\ UNCHANGED <<backup, previous_derived_bot_state>>
                ELSE IF sig = "SELL" /\ PrimarySellGuard(bot_managed_holding, last_trade_type)
                THEN /\ orders' = Append(orders, SellOrder("primary", bot_managed_holding,
                                      PrimarySellRate(config.order_execution_type,
                                          quote.highestBid,
                                          config.max_tolerable_slippage_percentage)))
                     /\ pc' = "primary_resp"
                     /\ UNCHANGED <<backup, previous_derived_bot_state>>
                ELSE BackupSignalLogic(bot_managed_holding, last_trade_type, quote)
    /\ UNCHANGED <<config, candles, call, ret, position, data, derived_bot_state, response>>

\* lines 745-755 / 770-779: the primary order call returns, the position is
\* updated, and the backup check runs on the updated position
PrimaryResponse ==
    /\ pc = "primary_resp"
    /\ LET side == orders[Len(orders)].side
       IN  \E resp \in (IF side = "BUY" THEN BuyResponses ELSE SellResponses) :
             LET new == IF side = "BUY"
                        THEN PrimaryBuyUpdate(bot_managed_holding, last_trade_type, resp)
                        ELSE PrimarySellUpdate(bot_managed_holding, last_trade_type, resp)
             IN  /\ response' = <<resp>>
                 /\ bot_managed_holding' = new[1]
                 /\ last_trade_type' = new[2]
                 /\ BackupSignalLogic(new[1], new[2], bitkub_market_data)
    /\ UNCHANGED <<config, candles, call, ret, data, bitkub_market_data, derived_bot_state, primary>>

\* lines 799-808 / 818-829: the backup order call returns
BackupResponse ==
    /\ pc = "backup_resp"
    /\ LET side == orders[Len(orders)].side
       IN  \E resp \in (IF side = "BUY" THEN BuyResponses ELSE SellResponses) :
             LET new == IF side = "BUY"
                        THEN BackupBuyUpdate(bot_managed_holding, last_trade_type, resp)
                        ELSE BackupSellUpdate(bot_managed_holding, last_trade_type, resp)
             IN  /\ response' = <<resp>>
                 /\ bot_managed_holding' = new[1]
                 /\ last_trade_type' = new[2]
    /\ previous_derived_bot_state' = derived_bot_state
    /\ pc' = "refresh"
    /\ UNCHANGED <<config, candles, call, ret, data, bitkub_market_data, derived_bot_state, primary,
                   backup, orders>>

\* an order call that raises (response['result'] missing at line 337 / 378):
\* caught at line 849
OrderRaises ==
    /\ pc \in {"primary_resp", "backup_resp"}
    /\ pc' = "backoff"
    /\ UNCHANGED <<config, candles, call, ret, position, previous_derived_bot_state, data,
                   bitkub_market_data, derived_bot_state, primary, backup,
                   orders, response>>

\* lines 837-847: balances are fetched for display, then time.sleep(0.1)
Refresh ==
    /\ pc = "refresh"
    /\ pc' = "loop"
    /\ UNCHANGED <<config, candles, call, ret, position, previous_derived_bot_state, data,
                   bitkub_market_data, derived_bot_state, primary, backup,
                   orders, response>>

\* lines 838-839: get_bitkub_balance raises (an error-0 answer without
\* 'result' at line 389, or a balance entry without 'available' at line 391):
\* caught at line 849
RefreshRaises ==
    /\ pc = "refresh"
    /\ pc' = "backoff"
    /\ UNCHANGED <<config, candles, call, ret, position, previous_derived_bot_state, data,
                   bitkub_market_data, derived_bot_state, primary, backup,
                   orders, response>>

Next ==
    \/ GetServerTime
    \/ ServerTimeFail
    \/ Backoff
    \/ FetchAndEvaluate
    \/ QuoteFail
    \/ QuoteOk
    \/ PrimaryResponse
    \/ BackupResponse
    \/ OrderRaises
    \/ Refresh
    \/ RefreshRaises

Spec == Init /\ [][Next]_vars

\* the loop never stops: every call it makes returns or times out
FairSpec == Spec /\ WF_vars(Next)

\* the configurations of one strategy (SMA 1 / 2, market orders, a seeded
\* holding) under every supported timeframe
TimeframeConfigs ==
    { ConfigOf(<<1, 2>>, "SMA", tf, <<TRUE, MaxSeed>>, 1000, <<"market", 0>>) :
        tf \in SupportedIntervals }

\* Startup (lines 544-617) with the configuration drawn from TimeframeConfigs
InitEveryTimeframe ==
    /\ config \in TimeframeConfigs
    /\ pc = "loop"
    /\ IF config.self_buy_enabled /\ config.self_buy_amount_coin > 0
       THEN bot_managed_holding = config.self_buy_amount_coin /\ last_trade_type = "BUY"
       ELSE bot_managed_holding = 0 /\ last_trade_type = "SELL"
    /\ previous_derived_bot_state = "UNKNOWN"
    /\ data = NoData(<<>>)
    /\ bitkub_market_data = NoQuote
    /\ derived_bot_state = "UNSET"
    /\ primary = "UNSET" /\ backup = "UNSET"
    /\ orders = <<>> /\ response = <<>>
    /\ candles = <<>> /\ call = <<>> /\ ret = <<>>

\* the bot under every supported timeframe
SpecEveryTimeframe == InitEveryTimeframe /\ [][Next]_vars

\* the same, every call the loop makes returning or timing out
FairSpecEveryTimeframe == SpecEveryTimeframe /\ WF_vars(Next)

\* a run without a seeded holding in which the exchange answers every klines
\* request with the same candles
InitSameData ==
    /\ Startup
    /\ ~config.self_buy_enabled
    /\ candles \in Klines(fetch_limit) \ {<<>>}
    /\ call = <<>> /\ ret = <<>>

\* line 680 when the exchange answers the same candles again
FetchSameData == Fetched(candles)

NextSameData ==
    \/ GetServerTime
    \/ ServerTimeFail
    \/ Backoff
    \/ FetchSameData
    \/ QuoteFail
    \/ QuoteOk
    \/ PrimaryResponse
    \/ BackupResponse
    \/ OrderRaises
    \/ Refresh
    \/ RefreshRaises

\* the bot run against a market whose candles do not change between cycles
SpecSameData == InitSameData /\ [][NextSameData]_vars

(* ------------------ the functions, each on its own --------------------- *)
\* the program variables while a function is examined outside the loop
Idle ==
    /\ config = CHOOSE c \in Configs : TRUE
    /\ bot_managed_holding = 0 /\ last_trade_type = "SELL"
    /\ previous_derived_bot_state = "UNKNOWN"
    /\ data = NoData(<<>>)
    /\ bitkub_market_data = NoQuote
    /\ derived_bot_state = "UNSET"
    /\ primary = "UNSET" /\ backup = "UNSET"
    /\ orders = <<>> /\ response = <<>>
    /\ candles = <<>>

\* calculate_ma(prices, period, ma_type), and the same call on the series
\* with older prices put in front of it
MaCalls ==
    { [prices |-> series, history |-> older, period |-> p, ma_type |-> t] :
        series \in SeqsUpTo(1..MaxPrice, MaxLen),
        older \in SeqsUpTo(1..MaxPrice, MaxHistory),
        p \in 0..MaxPeriod, t \in SupportedIndicatorTypes }

InitMa == Idle /\ pc = "call" /\ call \in MaCalls /\ ret = <<>>

\* lines 133-153: the call returns a value or raises ZeroDivisionError
CallMa ==
    /\ pc = "call"
    /\ pc' = "return"
    /\ ret' = IF RaisesZeroDivision(call.period)
              THEN [raised |-> TRUE, plain |-> None, extended |-> None]
              ELSE [raised |-> FALSE,
                    plain |-> calculate_ma(call.prices, call.period, call.ma_type),
                    extended |-> calculate_ma(call.history \o call.prices,
                                              call.period, call.ma_type)]
    /\ UNCHANGED <<config, candles, call, position, previous_derived_bot_state,
                   data, bitkub_market_data, derived_bot_state, primary, backup,
                   orders, response>>

NextMa == CallMa

SpecMa == InitMa /\ [][NextMa]_vars

(* ------------------- the wait before the fetch ------------------------- *)
\* lines 571-576
interval_duration_seconds ==
    [i \in SupportedIntervals |->
        CASE i = "1s" -> 1
          [] i = "1m" -> 60
          [] i = "3m" -> 3 * 60
          [] i = "5m" -> 5 * 60
          [] i = "15m" -> 15 * 60
          [] i = "30m" -> 30 * 60
          [] i = "1h" -> 60 * 60
          [] i = "2h" -> 2 * 60 * 60
          [] i = "4h" -> 4 * 60 * 60
          [] i = "6h" -> 6 * 60 * 60
          [] i = "8h" -> 8 * 60 * 60
          [] i = "12h" -> 12 * 60 * 60
          [] i = "1d" -> 24 * 60 * 60
          [] i = "3d" -> 3 * 24 * 60 * 60
          [] i = "1w" -> 7 * 24 * 60 * 60
          [] i = "1M" -> 30 * 24 * 60 * 60]

\* mutant: the one-hour timeframe is polled every 30 seconds
wait_time_seconds_HourlyRush(interval) ==
    IF interval \in {"1d", "1w", "1M", "3d", "2h", "4h", "6h", "8h", "12h"} THEN 600
    ELSE IF interval = "1m" THEN 10
    ELSE IF interval = "3m" THEN 20
    ELSE IF interval = "5m" THEN 30
    ELSE IF interval = "15m" THEN 60
    ELSE IF interval = "30m" THEN 60
    ELSE IF interval = "1h" THEN 30
    ELSE 0

\* lines 631-661: wait_time_seconds, 0 where the candle-close logic decides
wait_time_seconds(interval) ==
    IF interval \in {"1d", "1w", "1M", "3d", "2h", "4h", "6h", "8h", "12h"} THEN 600
    ELSE IF interval = "1m" THEN 10
    ELSE IF interval = "3m" THEN 20
    ELSE IF interval = "5m" THEN 30
    ELSE IF interval = "15m" THEN 60
    ELSE IF interval = "30m" THEN 60
    ELSE IF interval = "1h" THEN 300
    ELSE 0

\* mutant: the wait ends at the close of the current candle
time_to_wait_ms_CurrentClose(current_unix_ms_binance, duration_sec) ==
    LET interval_duration_ms == duration_sec * 1000
        current_interval_start_ms ==
            (current_unix_ms_binance \div interval_duration_ms) * interval_duration_ms
        expected_current_candle_close_ms ==
            current_interval_start_ms + interval_duration_ms - 1
    IN  expected_current_candle_close_ms - current_unix_ms_binance

\* lines 665-670
time_to_wait_ms(current_unix_ms_binance, duration_sec) ==
    LET interval_duration_ms == duration_sec * 1000
        current_interval_start_ms ==
            (current_unix_ms_binance \div interval_duration_ms) * interval_duration_ms
        expected_current_candle_close_ms ==
            current_interval_start_ms + interval_duration_ms - 1
        next_candle_close_time_ms ==
            expected_current_candle_close_ms + interval_duration_ms
    IN  next_candle_close_time_ms - current_unix_ms_binance

\* the intervals with a branch of their own at lines 633-660
FixedCadenceIntervals == {i \in SupportedIntervals : wait_time_seconds(i) # 0}

\* lines 630-677: which branch sleeps, and for how many milliseconds
WaitBeforeFetch(interval, current_unix_ms_binance) ==
    IF interval \in FixedCadenceIntervals
    THEN [branch |-> "fixed", sleep_ms |-> wait_time_seconds(interval) * 1000]
    ELSE LET wait == time_to_wait_ms(current_unix_ms_binance,
                                     interval_duration_seconds[interval])
         IN  IF wait > 0
             THEN [branch |-> "candle", sleep_ms |-> wait]
             ELSE [branch |-> "immediate", sleep_ms |-> 0]

WaitCalls ==
    { [interval |-> i, current_unix_ms_binance |-> t] :
        i \in SupportedIntervals, t \in 0..MaxClock }

InitWait == Idle /\ pc = "call" /\ call \in WaitCalls /\ ret = <<>>

\* lines 620-677: the server time is read and the wait is decided
DecideWait ==
    /\ pc = "call"
    /\ pc' = "return"
    /\ ret' = WaitBeforeFetch(call.interval, call.current_unix_ms_binance)
    /\ UNCHANGED <<config, candles, call, position, previous_derived_bot_state,
                   data, bitkub_market_data, derived_bot_state, primary, backup,
                   orders, response>>

\* the sleep is over and, the cycle done at once or a millisecond later, the
\* next iteration reads the server time; the result of the earlier iteration
\* is still there
NextReading ==
    /\ pc = "return"
    /\ \E delay \in {0, 1} :
         /\ call.current_unix_ms_binance + ret.sleep_ms + delay <= MaxClock
         /\ call' = [call EXCEPT !.current_unix_ms_binance = @ + ret.sleep_ms + delay]
    /\ pc' = "call"
    /\ UNCHANGED <<config, candles, ret, position, previous_derived_bot_state,
                   data, bitkub_market_data, derived_bot_state, primary, backup,
                   orders, response>>

NextWait == DecideWait \/ NextReading

SpecWait == InitWait /\ [][NextWait]_vars

(* ------------- the limit rate written into an order request ------------ *)
\* A price with decimal places is <<m, e>>, the value m * 10^-e.
RECURSIVE Pow10(_)
Pow10(n) == IF n = 0 THEN 1 ELSE 10 * Pow10(n - 1)

\* price >= 10^t, for a price below 10^10 units of 10^-e
AtLeastPow10(price, t) ==
    LET k == price[2] + t
    IN  IF k > 9 THEN FALSE
        ELSE IF k < 0 THEN price[1] >= 1
        ELSE price[1] >= Pow10(k)

\* lines 156-175
get_display_decimals(price) ==
    IF price = None THEN 2
    ELSE IF AtLeastPow10(price, 3) THEN 2
    ELSE IF AtLeastPow10(price, 2) THEN 3
    ELSE IF AtLeastPow10(price, 1) THEN 4
    ELSE IF AtLeastPow10(price, 0) THEN 5
    ELSE IF AtLeastPow10(price, 0 - 1) THEN 6
    ELSE IF AtLeastPow10(price, 0 - 2) THEN 7
    ELSE 8

\* float(f'{rate:.{decimals}f}'), lines 327 and 369: the rate rounded to the
\* nearest multiple of 10^-decimals.  A rate exactly half way between two
\* multiples is stored as a float just below or just above the half, so
\* either neighbour can come out.
FormattedRate(rate, decimals) ==
    IF decimals >= rate[2] THEN {rate}
    ELSE LET unit == Pow10(rate[2] - decimals)
             q == rate[1] \div unit
             r == rate[1] % unit
         IN  IF 2 * r < unit THEN {<<q, decimals>>}
             ELSE IF 2 * r > unit THEN {<<q + 1, decimals>>}
             ELSE {<<q, decimals>>, <<q + 1, decimals>>}

DecLT(a, b) ==
    LET e == Max(a[2], b[2])
    IN  a[1] * Pow10(e - a[2]) < b[1] * Pow10(e - b[2])

DecEQ(a, b) == ~DecLT(a, b) /\ ~DecLT(b, a)

\* line 500: the slippage percentage the interactive configuration accepts
\* is 0 to 100
MaxSlippage == 100

\* lowestAsk and highestBid of the ticker, lines 283-284: 100, and in each
\* range of get_display_decimals a price written with one decimal place more
\* than that range keeps (1000.00k, 100.000k, ..., 0.00100000k)
QuotePrices ==
    {<<100, 0>>} \cup {<<Pow10(6) + k, e>> : k \in 0..MaxTail, e \in 3..9}

\* a limit order of one side priced from the quote: lines 739-747 and
\* 764-772 with place_buy_order_bitkub / place_sell_order_bitkub
RateCalls ==
    { [side |-> sd, price |-> q, max_slippage_percentage |-> sl] :
        sd \in {"BUY", "SELL"}, q \in QuotePrices, sl \in 0..MaxSlippage }

\* order_rate of lines 741 and 766 for a quoted price with decimal places
order_rate(side, price, max_slippage_percentage) ==
    LET rate == IF side = "BUY"
                THEN PrimaryBuyRate("limit", price[1], max_slippage_percentage)
                ELSE PrimarySellRate("limit", price[1], max_slippage_percentage)
    IN  <<rate[1], price[2] + 2>>

InitRate == Idle /\ pc = "call" /\ call \in RateCalls /\ ret = <<>>

\* the rate is computed (lines 741, 766) and the place function writes
\* json_body['rat'] (lines 326-327, 368-369)
PlaceLimitOrder ==
    /\ pc = "call"
    /\ pc' = "return"
    /\ LET rate == order_rate(call.side, call.price, call.max_slippage_percentage)
       IN  \E rat \in FormattedRate(rate, get_display_decimals(rate)) :
             ret' = [order_rate |-> rate, rat |-> rat]
    /\ UNCHANGED <<config, candles, call, position, previous_derived_bot_state,
                   data, bitkub_market_data, derived_bot_state, primary, backup,
                   orders, response>>

NextRate == PlaceLimitOrder

SpecRate == InitRate /\ [][NextRate]_vars

(* ----------------------------- properties ------------------------------ *)
\* a step that places an order request of the given side
PlacesOrder(side) ==
    /\ Len(orders') = Len(orders) + 1
    /\ orders'[Len(orders')].side = side

\* a step in which an order call returns a response
ResponseStep ==
    /\ pc \in {"primary_resp", "backup_resp"}
    /\ pc' \in {"backup_resp", "refresh"}
    /\ pc' # pc

\* the request the returning call was made for
pending == orders[Len(orders)]

\* C1: while the bot holds coins from a buy (bot_managed_holding > 0 and
\* last_trade_type = "BUY"), no step places a buy order request, primary or
\* backup, and the only step that ends this condition is a sell order call
\* returning success.
C1_NoBuyWhileHolding ==
    [][ (bot_managed_holding > 0 /\ last_trade_type = "BUY")
          => /\ ~PlacesOrder("BUY")
             /\ \/ position' = position
                \/ ResponseStep /\ pending.side = "SELL" /\ response'[1].error = 0 ]_vars

\* C1 witness: without a seeded holding, a cycle that detected a primary buy
\* signal while holding bought coins ended with no order placed.
C1_Witness ==
    /\ ~config.self_buy_enabled
    /\ bot_managed_holding > 0 /\ last_trade_type = "BUY"
    /\ primary = "BUY" /\ backup = "NONE" /\ orders = <<>>
    /\ pc = "refresh"

\* C2: in any single cycle at most one order request is placed.
C2_AtMostOneOrderPerCycle == Len(orders) <= 1

\* C3: an order call returning error # 0 leaves bot_managed_holding and
\* last_trade_type as they were, and the position changes only in a step in
\* which an order call returns error = 0.
C3_FailedOrderKeepsPosition ==
    [][ /\ (ResponseStep /\ response'[1].error # 0) => position' = position
        /\ position' # position => (ResponseStep /\ response'[1].error = 0) ]_vars

\* C3 witness: a primary and then a backup sell both failed and the coins are
\* still managed.
C3_Witness ==
    /\ pc = "refresh" /\ Len(orders) = 2
    /\ orders[2].side = "SELL" /\ response # <<>> /\ response[1].error # 0
    /\ bot_managed_holding > 0 /\ last_trade_type = "BUY"

\* C4: when a buy call returns success the holding grows by the received amount
\* and the last trade type becomes BUY; when a sell call returns success the
\* holding becomes 0 and the last trade type SELL; for primary and backup orders.
C4_SuccessUpdatesPosition ==
    [][ (ResponseStep /\ response'[1].error = 0)
          => IF pending.side = "BUY"
             THEN /\ bot_managed_holding' = bot_managed_holding + response'[1].rec
                  /\ last_trade_type' = "BUY"
             ELSE /\ bot_managed_holding' = 0
                  /\ last_trade_type' = "SELL" ]_vars

\* C4 witness: a backup buy succeeded with a positive received amount.
C4_Witness ==
    /\ pc = "refresh" /\ Len(orders) = 1
    /\ orders[1].side = "BUY" /\ orders[1].signal_type = "backup"
    /\ response # <<>> /\ response[1].error = 0 /\ response[1].rec > 0
    /\ bot_managed_holding = response[1].rec /\ last_trade_type = "BUY"

\* C5: a sell order request, primary or backup, is placed only with
\* bot_managed_holding > 0 and last_trade_type # "SELL".
C5_SellOnlyWhenHolding ==
    [][ PlacesOrder("SELL")
          => (bot_managed_holding' > 0 /\ last_trade_type' # "SELL") ]_vars

\* C5 witness: a backup sell request is out for the managed coins.
C5_Witness ==
    /\ pc = "backup_resp" /\ Len(orders) = 1
    /\ orders[1].side = "SELL" /\ orders[1].signal_type = "backup"
    /\ bot_managed_holding > 0

\* C6: while previous_derived_bot_state is UNKNOWN no backup signal is
\* produced (and so no backup order placed).
C6_NoBackupWhileUnknown ==
    previous_derived_bot_state = "UNKNOWN" => backup \in {"UNSET", "NONE"}

\* C7: in a cycle without a primary crossover (and with a known previous
\* state), the backup signal is BUY iff the derived state is HOLDING and the
\* previous derived state CASH, and SELL iff the derived state is CASH and the
\* previous derived state HOLDING.
C7_BackupIffDrift ==
    [][ (pc = "quote" /\ primary' = "NONE" /\ previous_derived_bot_state # "UNKNOWN")
          => /\ backup' = "BUY" <=> (derived_bot_state = "HOLDING"
                                     /\ previous_derived_bot_state = "CASH")
             /\ backup' = "SELL" <=> (derived_bot_state = "CASH"
                                      /\ previous_derived_bot_state = "HOLDING") ]_vars

\* C8: once an iteration that computed a derived state is over,
\* previous_derived_bot_state equals that derived state.
C8_PreviousStateFollowsDerived ==
    (pc \in {"loop", "backoff"} /\ derived_bot_state # "UNSET")
        => previous_derived_bot_state = derived_bot_state

\* C9: the derived state is HOLDING iff curFast > curSlow and CASH otherwise;
\* the primary signal is BUY iff curFast > curSlow and prevFast <= prevSlow,
\* SELL iff curFast < curSlow and prevFast >= prevSlow, never both, and
\* curFast = curSlow gives no primary signal and the state CASH.
C9_CrossoverClassification ==
    derived_bot_state # "UNSET" =>
        LET cf == data.current_confirmed_mas[config.fast_ma_period]
            cs == data.current_confirmed_mas[config.slow_ma_period]
            pf == data.previous_confirmed_mas[config.fast_ma_period]
            ps == data.previous_confirmed_mas[config.slow_ma_period]
            curDiff  == cf[1] * cs[2] - cs[1] * cf[2]
            prevDiff == pf[1] * ps[2] - ps[1] * pf[2]
        IN  /\ derived_bot_state = (IF curDiff > 0 THEN "HOLDING" ELSE "CASH")
            /\ primary # "UNSET" =>
                 /\ primary \in {"BUY", "SELL", "NONE"}
                 /\ primary = "BUY" <=> (curDiff > 0 /\ prevDiff <= 0)
                 /\ primary = "SELL" <=> (curDiff < 0 /\ prevDiff >= 0)
                 /\ curDiff = 0 => (primary = "NONE" /\ derived_bot_state = "CASH")

\* C9 witness: fast above slow now, fast equal to slow one candle earlier: a
\* primary buy signal and the state HOLDING.
C9_Witness ==
    /\ primary = "BUY" /\ derived_bot_state = "HOLDING"
    /\ LET pf == data.previous_confirmed_mas[config.fast_ma_period]
           ps == data.previous_confirmed_mas[config.slow_ma_period]
       IN  pf[1] * ps[2] = ps[1] * pf[2]

\* a primary signal was detected and suppressed, and the backup logic of the
\* same cycle placed an order in the signal's direction
MirroredSuppressedPrimary ==
    /\ primary \in {"BUY", "SELL"}
    /\ orders # <<>>
    /\ orders[1].signal_type = "backup"
    /\ orders[1].side = primary

\* C10 (as stated): a cycle in which a suppressed primary signal is mirrored
\* by a backup order of the same direction occurs.
C10_MirrorOccurs == <>MirroredSuppressedPrimary

\* C10 (amended): in no cycle is a suppressed primary signal mirrored by a
\* backup order of the same direction.
C10_SuppressedPrimaryNotMirrored == ~MirroredSuppressedPrimary

\* C10 witness: a primary sell signal was suppressed (nothing is managed) and
\* the backup logic of that cycle ran and placed nothing.
C10_Witness ==
    /\ primary = "SELL" /\ backup = "NONE" /\ orders = <<>>
    /\ bot_managed_holding = 0
    /\ pc = "refresh"

\* C11: with the same candles served in every cycle and nothing managed, the
\* cycle that sees a fast-above-slow crossover places exactly one order request,
\* a BUY; bot_managed_holding grows only when a buy call returns success with a
\* positive received amount, and that fill is followed by no further order in
\* the cycle; a later cycle, which sees the same crossover while the coins are
\* managed, places no order request.
C11_CrossoverBuysOnce ==
    [][ /\ (pc = "quote" /\ primary' = "BUY" /\ bot_managed_holding = 0)
           => /\ Len(orders') = 1 /\ orders'[1].side = "BUY"
              /\ pc' = "primary_resp"
              /\ position' = position
        /\ (/\ pc = "primary_resp" /\ ResponseStep /\ pending.side = "BUY"
            /\ response'[1].error = 0 /\ response'[1].rec > 0)
           => /\ orders' = orders /\ pc' = "refresh"
              /\ bot_managed_holding' = bot_managed_holding + response'[1].rec
        /\ bot_managed_holding' > bot_managed_holding
           => /\ ResponseStep /\ pending.side = "BUY"
              /\ response'[1].error = 0 /\ response'[1].rec > 0
        /\ (pc = "quote" /\ primary' = "BUY" /\ bot_managed_holding > 0)
           => /\ orders' = <<>> /\ pc' = "refresh"
              /\ position' = position ]_vars

\* C11 witness: the candles are the same in every cycle, nothing was seeded,
\* and a cycle that saw the crossover again with the bought coins managed has
\* ended without an order request.
C11_Witness ==
    /\ candles # <<>> /\ ~config.self_buy_enabled
    /\ bot_managed_holding > 0 /\ last_trade_type = "BUY"
    /\ primary = "BUY" /\ orders = <<>>
    /\ pc = "refresh"

\* C12: bot_managed_holding is never negative, and a step changes it only when
\* an order call returns success: a buy, which never decreases it, or a sell,
\* which sets it to exactly 0; no other step (skipped cycle, failed order,
\* exception, backoff, refresh) changes it.
C12_HoldingChangesOnlyByFills ==
    /\ [](bot_managed_holding >= 0)
    /\ [][ bot_managed_holding' # bot_managed_holding
             => /\ ResponseStep /\ response'[1].error = 0
                /\ pending.side = "BUY" => bot_managed_holding' > bot_managed_holding
                /\ pending.side = "SELL" => bot_managed_holding' = 0 ]_vars

\* C12 witness: a sell of more than one managed coin succeeded and nothing is
\* managed any more.
C12_Witness ==
    /\ pc = "refresh" /\ Len(orders) = 1
    /\ orders[1].side = "SELL" /\ orders[1].amt > 1
    /\ response # <<>> /\ response[1].error = 0
    /\ bot_managed_holding = 0

\* the four MA values the cycle reads at lines 711-714
FourMas ==
    {Get(data.current_confirmed_mas, config.fast_ma_period),
     Get(data.current_confirmed_mas, config.slow_ma_period),
     Get(data.previous_confirmed_mas, config.fast_ma_period),
     Get(data.previous_confirmed_mas, config.slow_ma_period)}

\* the series of this cycle is shorter than max(fast, slow) + 2 (an empty or
\* failed fetch included) or one of the four MA values is missing
InsufficientData ==
    \/ Len(data.close_prices) < Max(config.fast_ma_period, config.slow_ma_period) + 2
    \/ None \in FourMas

\* C13: a cycle whose series is shorter than max(fast, slow) + 2 or that
\* misses one of the four MA values has no MA results at all, computes no
\* derived state and no signal, places no order, and leaves
\* bot_managed_holding, last_trade_type and previous_derived_bot_state
\* unchanged; a series of at least max(fast, slow) + 2 samples (periods >= 1)
\* gives all four MA values.
C13_InsufficientDataSkipsCycle ==
    /\ [](InsufficientData
             => /\ data.current_confirmed_mas = EmptyDict
                /\ data.previous_confirmed_mas = EmptyDict
                /\ derived_bot_state = "UNSET"
                /\ primary = "UNSET" /\ backup = "UNSET"
                /\ orders = <<>> /\ response = <<>>)
    /\ []((/\ config.fast_ma_period >= 1 /\ config.slow_ma_period >= 1
           /\ Len(data.close_prices)
                 >= Max(config.fast_ma_period, config.slow_ma_period) + 2)
             => None \notin FourMas)
    /\ [][ InsufficientData'
             => /\ position' = position
                /\ previous_derived_bot_state' = previous_derived_bot_state ]_vars

\* C13 witness: with coins managed and a known previous state, a cycle fetched
\* one candle less than needed and went straight to the balance refresh.
C13_Witness ==
    /\ pc = "refresh"
    /\ Len(data.close_prices)
          = Max(config.fast_ma_period, config.slow_ma_period) + 1
    /\ bot_managed_holding > 0 /\ previous_derived_bot_state = "HOLDING"
    /\ derived_bot_state = "UNSET" /\ orders = <<>>

\* C14: the step in which the quote fetch fails places no order, leaves the
\* position unchanged and returns to the top of the loop; the cycle stays
\* without an order, and the next step is the next iteration's server-time
\* read (which may itself fail and back off).
C14_QuoteFailureSkipsTrading ==
    /\ [](bitkub_market_data.status = "none"
             => (pc \in {"loop", "backoff"} /\ orders = <<>>))
    /\ [][ /\ (pc = "quote" /\ bitkub_market_data'.status = "none")
              => /\ pc' = "loop" /\ orders' = <<>>
                 /\ position' = position
           /\ (bitkub_market_data.status = "none" /\ pc = "loop" /\ pc' # pc)
              => pc' \in {"fetch", "backoff"} ]_vars

\* C14 witness: the quote fetch failed in a cycle that derived CASH while coins
\* were managed (a sell would have been due); the loop is at its top again.
C14_Witness ==
    /\ bitkub_market_data.status = "none"
    /\ derived_bot_state = "CASH" /\ bot_managed_holding > 0
    /\ last_trade_type = "BUY" /\ orders = <<>>
    /\ pc = "loop"

\* C15: an exception raised inside a cycle leads to the 5-second backoff and
\* from there to the top of the loop; once the loop is entered it never stops:
\* again and again a new iteration starts and the loop moves on from its top.
C15_LoopNeverStops ==
    /\ [][ pc = "backoff" => pc' = "loop" ]_vars
    /\ (pc = "backoff") ~> (pc = "loop")
    /\ (pc = "loop") => ([]<>(pc = "loop") /\ []<>(pc # "loop"))

\* C15 witness: an order call raised after an earlier order of the same cycle
\* had been answered; the loop is in its backoff.
C15_Witness ==
    /\ pc = "backoff"
    /\ Len(orders) = 2 /\ response # <<>>

\* C16: with an unsupported MA kind in the configuration no cycle ever
\* computes a moving average (the configuration is rejected before the loop).
C16_UnsupportedKindNeverComputed ==
    config.indicator_type \notin SupportedIndicatorTypes
        => /\ data.current_confirmed_mas = EmptyDict
           /\ data.previous_confirmed_mas = EmptyDict

\* C17: with an unsupported timeframe or a fast or slow period below 1 the
\* loop is never entered (so nothing is fetched and no order is placed).
C17_InvalidConfigNeverRuns ==
    (\/ config.timeframe \notin SupportedIntervals
     \/ config.fast_ma_period < 1
     \/ config.slow_ma_period < 1)
        => pc = "exit"

\* the order request placed by this step
placed == orders'[Len(orders')]

C21_MarketOrdersCarryNoRate ==
    [][ (\E side \in {"BUY", "SELL"} : PlacesOrder(side)) /\ placed.typ = "market"
          => /\ placed.rate = None
             /\ placed = [side |-> placed.side,
                          amt |-> IF placed.side = "BUY"
                                  THEN config.position_size_thb
                                  ELSE bot_managed_holding',
                          typ |-> "market", rate |-> None,
                          signal_type |-> placed.signal_type]
             /\ \A slippage \in 0..config.max_tolerable_slippage_percentage :
                  LET ask == bitkub_market_data'.lowestAsk
                      bid == bitkub_market_data'.highestBid
                  IN  /\ PrimaryBuyRate("market", ask, slippage) = None
                      /\ PrimarySellRate("market", bid, slippage) = None
                      /\ BackupBuyRate("market", ask, slippage) = None
                      /\ BackupSellRate("market", bid, slippage) = None ]_vars

\* C21 witness: a market buy request without a rate is out under a slippage
\* setting of 2.
C21_Witness ==
    /\ pc = "primary_resp"
    /\ config.order_execution_type = "market"
    /\ config.max_tolerable_slippage_percentage = 2
    /\ orders[1].side = "BUY" /\ orders[1].rate = None

\* C22: for a period p >= 1, calculate_sma, calculate_ema and calculate_wma
\* return None on a series of fewer than p prices and a number on a series
\* of at least p prices, and never raise.
C22_ShortSeriesGivesNone ==
    (pc = "return" /\ call.period >= 1)
        => /\ ~ret.raised
           /\ Len(call.prices) < call.period => ret.plain = None
           /\ Len(call.prices) >= call.period
                => (ret.plain # None /\ Len(ret.plain) = 2 /\ ret.plain[2] > 0)

\* C22 witness: calculate_ema returned None for a series one price shorter
\* than the period.
C22_Witness ==
    /\ pc = "return" /\ call.ma_type = "EMA"
    /\ call.period >= 2 /\ Len(call.prices) = call.period - 1
    /\ ret.plain = None

\* C23: for SMA and WMA with period p >= 1 and a series of at least p prices,
\* the result is that of the trailing p prices alone and does not change when
\* older prices are put in front of the series; the WMA is the sum of the
\* trailing prices weighted 1..p from oldest to newest, divided by p*(p+1)/2.
C23_TrailingWindowOnly ==
    (/\ pc = "return" /\ call.ma_type \in {"SMA", "WMA"}
     /\ call.period >= 1 /\ Len(call.prices) >= call.period)
        => LET p == call.period
               n == Len(call.prices)
               trailing == [i \in 1..p |-> call.prices[n - p + i]]
           IN  /\ ret.extended = ret.plain
               /\ ret.plain = calculate_ma(trailing, p, call.ma_type)
               /\ call.ma_type = "WMA"
                    => ret.plain[1] * ((p * (p + 1)) \div 2)
                         = ret.plain[2] * SumSeq([i \in 1..p |-> i * trailing[i]])
               /\ call.ma_type = "SMA"
                    => ret.plain[1] * p = ret.plain[2] * SumSeq(trailing)

\* C23 witness: a WMA of period 2 over a rising series of 3 prices, with an
\* older, different price in front of it in the second call.
C23_Witness ==
    /\ pc = "return" /\ call.ma_type = "WMA" /\ call.period = 2
    /\ Len(call.prices) = 3 /\ call.prices[2] < call.prices[3]
    /\ call.history # <<>> /\ call.history[1] # call.prices[1]
    /\ ret.extended = ret.plain

\* C24: with a fetched series of n closes, the current confirmed MAs are those
\* of its first n-1 closes and the previous confirmed MAs those of its first
\* n-2 closes, so that another value for the last, unconfirmed close gives the
\* same MAs; a series of fewer than 2 closes gives no MA values and no order.
C24_ConfirmedWindows ==
    LET closes == data.close_prices
        n == Len(closes)
        periods == <<config.fast_ma_period, config.slow_ma_period>>
        kind == config.indicator_type
    IN  /\ data.current_confirmed_mas # EmptyDict
             => /\ \A p \in DOMAIN data.current_confirmed_mas :
                     data.current_confirmed_mas[p]
                       = calculate_ma([i \in 1..(n - 1) |-> closes[i]], p, kind)
                /\ \A p \in DOMAIN data.previous_confirmed_mas :
                     data.previous_confirmed_mas[p]
                       = calculate_ma([i \in 1..(n - 2) |-> closes[i]], p, kind)
                /\ \A unconfirmed \in 1..MaxPrice :
                     LET other == get_crypto_data_and_mas(
                                      [closes EXCEPT ![n] = unconfirmed], periods, kind)
                     IN  /\ other.current_confirmed_mas = data.current_confirmed_mas
                         /\ other.previous_confirmed_mas = data.previous_confirmed_mas
        /\ n < 2
             => /\ data.current_confirmed_mas = EmptyDict
                /\ data.previous_confirmed_mas = EmptyDict
                /\ orders = <<>> /\ pc # "quote"

\* C24 witness: four closes were fetched, the last differs from the one before
\* it, and the current MA of period 1 is the close before the last.
C24_Witness ==
    /\ Len(data.close_prices) = 4
    /\ data.close_prices[4] # data.close_prices[3]
    /\ 1 \in DOMAIN data.current_confirmed_mas
    /\ data.current_confirmed_mas[1] = <<data.close_prices[3], 1>>
    /\ pc = "quote"

\* C25: where the candle-close logic decides the wait, for an interval of d
\* milliseconds and a server time t, the wait is positive, between d and
\* 2d - 1, and ends at the close of the candle after the current one
\* (t + wait is d - 1 modulo d, one candle on); the 'already past close'
\* branch is never taken.
C25_CandleAlignedWait ==
    (pc = "return" /\ call.interval \notin FixedCadenceIntervals)
        => LET d == interval_duration_seconds[call.interval] * 1000
               t == call.current_unix_ms_binance
               wait == ret.sleep_ms
           IN  /\ ret.branch = "candle"
               /\ wait > 0 /\ d <= wait /\ wait <= 2 * d - 1
               /\ (t + wait) % d = d - 1
               /\ (t + wait) \div d = (t \div d) + 1

\* C25 witness: the server time is the last millisecond of a one-second
\* candle, and the wait is one full second.
C25_Witness ==
    /\ pc = "return" /\ call.interval = "1s"
    /\ call.current_unix_ms_binance % 1000 = 999
    /\ ret.branch = "candle" /\ ret.sleep_ms = 1000

\* C26: for an interval with a fixed cadence the wait is the same for every
\* server time, grows (weakly) with the interval's duration, and is positive
\* and at most the interval's duration.
C26_FixedCadenceWait ==
    (pc = "return" /\ call.interval \in FixedCadenceIntervals)
        => /\ ret.branch = "fixed"
           /\ \A t \in {0, call.current_unix_ms_binance + 1, MaxClock} :
                WaitBeforeFetch(call.interval, t) = ret
           /\ \A other \in FixedCadenceIntervals :
                interval_duration_seconds[call.interval]
                    <= interval_duration_seconds[other]
                  => ret.sleep_ms <= WaitBeforeFetch(other, 0).sleep_ms
           /\ ret.sleep_ms > 0
           /\ ret.sleep_ms % 1000 = 0
           /\ ret.sleep_ms \div 1000 <= interval_duration_seconds[call.interval]

\* C26 witness: the one-hour timeframe waits five minutes, at a server time
\* that is not the start of a candle.
C26_Witness ==
    /\ pc = "return" /\ call.interval = "1h"
    /\ call.current_unix_ms_binance % 1000 = 777
    /\ ret.branch = "fixed" /\ ret.sleep_ms = 300 * 1000

\* C27: in every state of the evaluation loop, last_trade_type = "BUY"
\* implies bot_managed_holding > 0.
C27_LastBuyImpliesHolding ==
    (pc # "exit" /\ last_trade_type = "BUY") => bot_managed_holding > 0

\* C28: in every state of the evaluation loop last_trade_type is "BUY" or
\* "SELL", and last_trade_type = "SELL" implies bot_managed_holding = 0.
C28_LastSellImpliesNoHolding ==
    pc # "exit"
        => /\ last_trade_type \in {"BUY", "SELL"}
           /\ last_trade_type = "SELL" => bot_managed_holding = 0

\* C28 witness: a seeded holding was sold by a backup sell after the primary
\* sell of the same cycle had failed.
C28_Witness ==
    /\ config.self_buy_enabled /\ config.self_buy_amount_coin > 0
    /\ pc = "refresh" /\ Len(orders) = 2 /\ backup = "SELL"
    /\ response # <<>> /\ response[1].error = 0
    /\ last_trade_type = "SELL" /\ bot_managed_holding = 0

\* C29: every buy order request, primary or backup, is placed in a cycle
\* whose derived state is HOLDING, and every sell order request in a cycle
\* whose derived state is CASH.
C29_OrdersFollowDerivedState ==
    [][ /\ PlacesOrder("BUY") => derived_bot_state' = "HOLDING"
        /\ PlacesOrder("SELL") => derived_bot_state' = "CASH" ]_vars

\* C29 witness: a primary sell request is out in a cycle that derived CASH
\* from a fast MA below the slow MA.
C29_Witness ==
    /\ pc = "primary_resp" /\ orders[1].side = "SELL"
    /\ derived_bot_state = "CASH"
    /\ FracLT(data.current_confirmed_mas[config.fast_ma_period],
              data.current_confirmed_mas[config.slow_ma_period])

\* every order request of the cycle was answered with success, a buy with a
\* positive received amount (a cycle with two requests is not among these: see
\* the second part of C30)
AllOrdersFilled ==
    \/ orders = <<>>
    \/ /\ Len(orders) = 1 /\ response # <<>>
       /\ response[1].error = 0
       /\ orders[1].side = "BUY" => response[1].rec > 0

\* C30: at the end of a cycle that computed the derived state, got its quote
\* and had every order filled, derived HOLDING implies last_trade_type =
\* "BUY" and bot_managed_holding > 0, and derived CASH implies
\* bot_managed_holding = 0; a second order request is placed in a cycle only
\* after the first was not filled.
C30_Reconciliation ==
    /\ []((/\ pc = "refresh" /\ derived_bot_state # "UNSET"
           /\ bitkub_market_data.status = "ok" /\ AllOrdersFilled)
             => /\ derived_bot_state = "HOLDING"
                     => (last_trade_type = "BUY" /\ bot_managed_holding > 0)
                /\ derived_bot_state = "CASH" => bot_managed_holding = 0)
    /\ [][ (pc = "primary_resp" /\ pc' = "backup_resp")
             => \/ response'[1].error # 0
                \/ (pending.side = "BUY" /\ response'[1].rec = 0) ]_vars

\* C30 witness: a cycle that derived HOLDING without a crossover, with nothing
\* managed, ended after its backup buy was filled.
C30_Witness ==
    /\ pc = "refresh" /\ derived_bot_state = "HOLDING"
    /\ primary = "NONE" /\ backup = "BUY" /\ AllOrdersFilled
    /\ Len(orders) = 1
    /\ last_trade_type = "BUY" /\ bot_managed_holding > 0

\* the rate as computed at lines 741 and 766, before the place function
\* formats it: not below the ask for a buy, between 0 and the bid for a sell,
\* and the quoted price itself for slippage 0
ComputedRateWithinQuote ==
    pc = "return"
        => /\ call.side = "BUY" => ~DecLT(ret.order_rate, call.price)
           /\ call.side = "SELL"
                => (~DecLT(call.price, ret.order_rate) /\ ret.order_rate[1] >= 0)
           /\ call.max_slippage_percentage = 0 => DecEQ(ret.order_rate, call.price)

\* C31: for every slippage percentage in 0..100 and every positive ask and
\* bid, the limit price of a buy order is not below the best ask, the limit
\* price of a sell order is not above the best bid and not negative, and with
\* slippage 0 the limit price equals the quoted ask or bid.
C31_LimitPriceWithinQuote ==
    pc = "return"
        => /\ call.side = "BUY" => ~DecLT(ret.rat, call.price)
           /\ call.side = "SELL"
                => (~DecLT(call.price, ret.rat) /\ ret.rat[1] >= 0)
           /\ call.max_slippage_percentage = 0 => DecEQ(ret.rat, call.price)

\* C32: under every timeframe, when the server-time read at the start of a
\* cycle fails, the cycle goes to the 5-second sleep without fetching prices
\* or placing an order and with bot_managed_holding, last_trade_type and
\* previous_derived_bot_state as they were; nothing changes during the sleep,
\* and after it the loop is at its top again.
C32_ServerTimeFailureSkipsCycle ==
    /\ [][ (pc = "loop" /\ pc' # "fetch")
             => /\ pc' = "backoff"
                /\ UNCHANGED <<position, previous_derived_bot_state, data,
                               bitkub_market_data, derived_bot_state, primary,
                               backup, orders, response>> ]_vars
    /\ [][ pc = "backoff"
             => /\ pc' = "loop"
                /\ UNCHANGED <<position, previous_derived_bot_state, data,
                               bitkub_market_data, derived_bot_state, primary,
                               backup, orders, response>> ]_vars
    /\ (pc = "backoff") ~> (pc = "loop")

\* C32 witness: under the fixed-cadence timeframe 1h the server-time read
\* failed at the start of a cycle that follows a cycle without enough data,
\* with a holding managed and a derived state remembered from before.
C32_Witness ==
    /\ pc = "backoff"
    /\ config.timeframe = "1h" /\ wait_time_seconds("1h") # 0
    /\ derived_bot_state = "UNSET" /\ orders = <<>>
    /\ bot_managed_holding > 0 /\ last_trade_type = "BUY"
    /\ previous_derived_bot_state # "UNKNOWN"

=============================================================================
